---------------------------- MODULE Spec2Model ----------------------------
(***************************************************************************)
(* Model of generate_test_png.py: create_png_data() assembles the bytes of  *)
(* a 1x1 transparent PNG, main() writes them to a path and reports the      *)
(* size.  Bytes are naturals 0..255, byte strings are sequences of bytes.   *)
(* 32-bit unsigned values (struct format 'L', CRC-32, Adler-32) are kept as *)
(* records [hi, lo] of two 16-bit halves, value = hi * 65536 + lo.          *)
(***************************************************************************)
EXTENDS Integers, Sequences, FiniteSets, TLC

(***************************************************************************)
(* Bounds of the model.                                                    *)
(***************************************************************************)
\* number of invocations of main that may run side by side
NumProcs == 2
\* largest number of bytes a failing flush may have put in the file
MaxPartial == 1

(***************************************************************************)
(* Bit and word helpers.                                                   *)
(***************************************************************************)
RECURSIVE Xor(_, _)
Xor(a, b) ==
  IF a = 0 THEN b
  ELSE IF b = 0 THEN a
  ELSE ((a + b) % 2) + 2 * Xor(a \div 2, b \div 2)

Word(n) == [hi |-> n \div 65536, lo |-> n % 65536]

WordXor(v, w) == [hi |-> Xor(v.hi, w.hi), lo |-> Xor(v.lo, w.lo)]

\* v >> 1
WordShr1(v) == [hi |-> v.hi \div 2, lo |-> (v.lo \div 2) + 32768 * (v.hi % 2)]

\* v & 0xffffffff
Mask32(v) == [hi |-> v.hi % 65536, lo |-> v.lo % 65536]

(***************************************************************************)
(* struct.pack                                                             *)
(***************************************************************************)
\* struct.pack('>L', v): four bytes, most significant first
pack_BE_L(v) == << v.hi \div 256, v.hi % 256, v.lo \div 256, v.lo % 256 >>

\* a faulty variant: least significant byte first ('<L')
pack_LE_L(v) == << v.lo % 256, v.lo \div 256, v.hi % 256, v.hi \div 256 >>

pack_L(v) == pack_BE_L(v)

\* struct.pack('B', n)
pack_B(n) == << n % 256 >>

\* struct.pack('>LLBBBBB', w, h, depth, color, compression, filter, interlace)
pack_LLBBBBB(w, h, b1, b2, b3, b4, b5) ==
  pack_L(Word(w)) \o pack_L(Word(h)) \o
  pack_B(b1) \o pack_B(b2) \o pack_B(b3) \o pack_B(b4) \o pack_B(b5)

\* the ASCII bytes of the chunk tags
Tag_IHDR == << 73, 72, 68, 82 >>
Tag_IDAT == << 73, 68, 65, 84 >>
Tag_IEND == << 73, 69, 78, 68 >>

(***************************************************************************)
(* zlib.crc32: reflected CRC-32, polynomial 0xEDB88320, initial value and   *)
(* final xor 0xFFFFFFFF.  (The tests c2.lo >= 0 are always true: they make   *)
(* TLC evaluate each step's value before the next step starts.)             *)
(***************************************************************************)
CrcPoly == [hi |-> 60856, lo |-> 33568]
AllOnes == [hi |-> 65535, lo |-> 65535]

RECURSIVE crc_bits(_, _)
crc_bits(c, n) ==
  IF n = 0 THEN c
  ELSE LET c2 == IF c.lo % 2 = 1 THEN WordXor(WordShr1(c), CrcPoly)
                 ELSE WordShr1(c)
       IN  IF c2.lo >= 0 THEN crc_bits(c2, n - 1) ELSE c2

RECURSIVE crc_update(_, _, _)
crc_update(c, data, i) ==
  IF i > Len(data) THEN c
  ELSE LET c2 == crc_bits(WordXor(c, Word(data[i])), 8)
       IN  IF c2.lo >= 0 THEN crc_update(c2, data, i + 1) ELSE c2

crc32(data) == WordXor(crc_update(AllOnes, data, 1), AllOnes)

(***************************************************************************)
(* Adler-32, the checksum that ends a zlib stream.                         *)
(***************************************************************************)
RECURSIVE adler_update(_, _, _, _)
adler_update(a, b, data, i) ==
  IF i > Len(data) THEN [hi |-> b, lo |-> a]
  ELSE LET a2 == (a + data[i]) % 65521
       IN  adler_update(a2, (b + a2) % 65521, data, i + 1)

adler32(data) == adler_update(1, 0, data, 1)

(***************************************************************************)
(* zlib.compress(data): a zlib stream holding one final DEFLATE block with  *)
(* the fixed Huffman code.  The source does not choose the compressor: the  *)
(* installed zlib decides how the input is cut into literals and matches.   *)
(*   "zlib"     the reference zlib: greedy matches, but the first byte of   *)
(*              the input is never the start of a match source              *)
(*   "greedy"   longest match at every position                            *)
(*   "literals" no matches at all                                          *)
(***************************************************************************)
ZlibImpls == {"zlib", "greedy", "literals"}

Min(a, b) == IF a < b THEN a ELSE b

\* n bits of v, most significant first (Huffman codes)
RECURSIVE BitsMSB(_, _)
BitsMSB(v, n) == IF n = 0 THEN <<>> ELSE BitsMSB(v \div 2, n - 1) \o << v % 2 >>

\* n bits of v, least significant first (header fields)
RECURSIVE BitsLSB(_, _)
BitsLSB(v, n) == IF n = 0 THEN <<>> ELSE << v % 2 >> \o BitsLSB(v \div 2, n - 1)

\* pack a bit sequence into bytes, first bit in the least significant place
RECURSIVE BitsToBytes(_)
BitsToBytes(bits) ==
  IF Len(bits) = 0 THEN <<>>
  ELSE LET bit(i) == IF i <= Len(bits) THEN bits[i] ELSE 0
           byte == bit(1) + 2 * bit(2) + 4 * bit(3) + 8 * bit(4) + 16 * bit(5)
                   + 32 * bit(6) + 64 * bit(7) + 128 * bit(8)
       IN  << byte >> \o
           (IF Len(bits) <= 8 THEN <<>> ELSE BitsToBytes(SubSeq(bits, 9, Len(bits))))

\* length of the match of data[i..] against data[i-d..], at most cap
RECURSIVE MatchLen(_, _, _, _)
MatchLen(data, i, d, cap) ==
  IF cap = 0 \/ i > Len(data) \/ data[i] # data[i - d] THEN 0
  ELSE 1 + MatchLen(data, i + 1, d, cap - 1)

\* the first position (from 1) a match may copy from
FirstSource(impl) ==
  CASE impl = "zlib"   -> 2
    [] impl = "greedy" -> 1
    [] OTHER           -> 0

\* match lengths 3..10 and distances 1..4 are the ones coded without extra bits
RECURSIVE Tokenize(_, _, _)
Tokenize(data, i, impl) ==
  IF i > Len(data) THEN <<>>
  ELSE LET first == FirstSource(impl)
           dists == IF first = 0 THEN {} ELSE {d \in 1..4 : i - d >= first}
           len(d) == MatchLen(data, i, d, 10)
           best == IF dists = {} THEN 0
                   ELSE CHOOSE l \in {len(d) : d \in dists} :
                          \A d \in dists : len(d) <= l
       IN  IF best >= 3
           THEN LET d == CHOOSE d \in dists : len(d) = best /\
                           \A e \in dists : len(e) = best => d <= e
                IN  << [lit |-> FALSE, len |-> best, dist |-> d] >>
                    \o Tokenize(data, i + best, impl)
           ELSE << [lit |-> TRUE, len |-> data[i], dist |-> 0] >>
                \o Tokenize(data, i + 1, impl)

\* the fixed Huffman code of one token
TokenBits(t) ==
  IF t.lit
  THEN IF t.len <= 143 THEN BitsMSB(48 + t.len, 8)
       ELSE BitsMSB(400 + (t.len - 144), 9)
  ELSE BitsMSB(t.len - 2, 7) \o BitsMSB(t.dist - 1, 5)

RECURSIVE TokensBits(_)
TokensBits(ts) ==
  IF ts = <<>> THEN <<>> ELSE TokenBits(Head(ts)) \o TokensBits(Tail(ts))

\* BFINAL = 1, BTYPE = 01, the tokens, end of block (symbol 256)
deflate(data, impl) ==
  BitsToBytes(<<1>> \o BitsLSB(1, 2) \o TokensBits(Tokenize(data, 1, impl))
              \o BitsMSB(0, 7))

\* CMF = 0x78 (deflate, 32K window); FLG = default level and the check bits
\* that make CMF * 256 + FLG a multiple of 31
zlib_header ==
  LET cmf == 120
      flevel == 2 * 64
      fcheck == (31 - ((cmf * 256 + flevel) % 31)) % 31
  IN  << cmf, flevel + fcheck >>

zlib_compress(data, impl) ==
  zlib_header \o deflate(data, impl) \o pack_BE_L(adler32(data))


(***************************************************************************)
(* create_png_data                                                         *)
(***************************************************************************)
png_signature == << 137, 80, 78, 71, 13, 10, 26, 10 >>

\* width=1, height=1, bit_depth=8, color_type=6, compression=0, filter=0,
\* interlace=0
ihdr_data == pack_LLBBBBB(1, 1, 8, 6, 0, 0, 0)

ihdr_crc == Mask32(crc32(Tag_IHDR \o ihdr_data))

ihdr_chunk ==
  pack_L(Word(Len(ihdr_data))) \o Tag_IHDR \o ihdr_data \o pack_L(ihdr_crc)

\* a faulty variant: the filter byte is forgotten
pixel_data_no_filter == << 0, 0, 0, 0 >>

\* filter type 0 and the four RGBA bytes
pixel_data == << 0, 0, 0, 0, 0 >>

compressed_data(impl) == zlib_compress(pixel_data, impl)

idat_crc(impl) == Mask32(crc32(Tag_IDAT \o compressed_data(impl)))

\* a faulty variant: the checksum covers the payload but not the tag
idat_chunk_crc_of_payload(impl) ==
  pack_L(Word(Len(compressed_data(impl)))) \o Tag_IDAT \o compressed_data(impl)
  \o pack_L(Mask32(crc32(compressed_data(impl))))

idat_chunk(impl) ==
  pack_L(Word(Len(compressed_data(impl)))) \o Tag_IDAT \o compressed_data(impl)
  \o pack_L(idat_crc(impl))

iend_crc == Mask32(crc32(Tag_IEND))

iend_chunk == pack_L(Word(0)) \o Tag_IEND \o pack_L(iend_crc)

\* a faulty variant: the data chunk ahead of the header chunk
create_png_data_swapped(impl) ==
  png_signature \o idat_chunk(impl) \o ihdr_chunk \o iend_chunk

create_png_data(impl) ==
  png_signature \o ihdr_chunk \o idat_chunk(impl) \o iend_chunk

(***************************************************************************)
(* Readers of the produced bytes: the inverses the properties are stated    *)
(* with.                                                                   *)
(***************************************************************************)
\* big-endian u32 of four bytes
unpack_L(b) == [hi |-> b[1] * 256 + b[2], lo |-> b[3] * 256 + b[4]]

\* cut a byte string into chunks: length, tag, payload of that length, CRC.
\* A chunk that does not fit ends the list with ok = FALSE.
RECURSIVE ParseChunks(_, _)
ParseChunks(bytes, i) ==
  IF i > Len(bytes) THEN <<>>
  ELSE LET bad == << [ok |-> FALSE, length |-> 0, tag |-> <<>>, data |-> <<>>,
                      crc |-> <<>>] >>
       IN  IF i + 11 > Len(bytes) THEN bad
           ELSE LET n == unpack_L(SubSeq(bytes, i, i + 3))
                IN  IF n.hi # 0 \/ i + 11 + n.lo > Len(bytes) THEN bad
                    ELSE << [ok     |-> TRUE,
                             length |-> n.lo,
                             tag    |-> SubSeq(bytes, i + 4, i + 7),
                             data   |-> SubSeq(bytes, i + 8, i + 7 + n.lo),
                             crc    |-> SubSeq(bytes, i + 8 + n.lo, i + 11 + n.lo)] >>
                        \o ParseChunks(bytes, i + 12 + n.lo)

\* the chunks that follow the 8 signature bytes
Chunks(bytes) == ParseChunks(bytes, 9)

RECURSIVE BytesToBits(_)
BytesToBits(bytes) ==
  IF bytes = <<>> THEN <<>>
  ELSE BitsLSB(Head(bytes), 8) \o BytesToBits(Tail(bytes))

RECURSIVE ValMSB(_, _, _)
ValMSB(bits, i, n) ==
  IF n = 0 THEN 0 ELSE 2 * ValMSB(bits, i, n - 1) + bits[i + n - 1]

RECURSIVE CopyBack(_, _, _)
CopyBack(out, d, l) ==
  IF l = 0 THEN out
  ELSE CopyBack(Append(out, out[Len(out) - d + 1]), d, l - 1)

\* decode fixed-Huffman symbols from bit i up to the end-of-block symbol
RECURSIVE inflate_fixed(_, _, _)
inflate_fixed(bits, i, out) ==
  LET err == [ok |-> FALSE, data |-> out, next |-> i]
  IN  IF i + 6 > Len(bits) THEN err
      ELSE LET c7 == ValMSB(bits, i, 7)
           IN  IF c7 = 0 THEN [ok |-> TRUE, data |-> out, next |-> i + 7]
               ELSE IF c7 <= 23
               THEN \* length symbol 256 + c7, then a 5-bit distance code
                    IF c7 > 8 \/ i + 11 > Len(bits) THEN err
                    ELSE LET dc == ValMSB(bits, i + 7, 5)
                         IN  IF dc > 3 \/ dc + 1 > Len(out) THEN err
                             ELSE inflate_fixed(bits, i + 12,
                                                CopyBack(out, dc + 1, c7 + 2))
               ELSE IF c7 <= 95
               THEN \* 8-bit code 48..191: literal 0..143
                    IF i + 7 > Len(bits) THEN err
                    ELSE inflate_fixed(bits, i + 8,
                                       Append(out, ValMSB(bits, i, 8) - 48))
               ELSE IF c7 <= 99 THEN err
               ELSE \* 9-bit code 400..511: literal 144..255
                    IF i + 8 > Len(bits) THEN err
                    ELSE inflate_fixed(bits, i + 9,
                                       Append(out, ValMSB(bits, i, 9) - 256))

\* zlib.decompress of a stream holding one final fixed-Huffman block
zlib_decompress(bytes) ==
  LET err == [ok |-> FALSE, data |-> <<>>]
  IN  IF Len(bytes) < 6 THEN err
      ELSE IF bytes[1] % 16 # 8 \/ (bytes[1] * 256 + bytes[2]) % 31 # 0
              \/ (bytes[2] \div 32) % 2 # 0 THEN err
      ELSE LET bits == BytesToBits(SubSeq(bytes, 3, Len(bytes)))
           IN  IF bits[1] # 1 \/ bits[2] + 2 * bits[3] # 1 THEN err
               ELSE LET r == inflate_fixed(bits, 4, <<>>)
                        used == ((r.next - 1) + 7) \div 8
                    IN  IF ~r.ok \/ Len(bytes) # 2 + used + 4 THEN err
                        ELSE IF SubSeq(bytes, 3 + used, 6 + used)
                                # pack_BE_L(adler32(r.data)) THEN err
                        ELSE [ok |-> TRUE, data |-> r.data]

(***************************************************************************)
(* main: the state of the invocations and of the file system.              *)
(***************************************************************************)
Procs == 1..NumProcs

DefaultPath == "example.png"
ExplicitPaths == {"out.png"}
Paths == {DefaultPath} \cup ExplicitPaths

\* sys.argv: the script name, then the optional output path
Argvs == { << "generate_test_png.py" >> } \cup
         { << "generate_test_png.py", path >> : path \in ExplicitPaths }

\* what a file may hold before any invocation starts
OldContent == << 79, 76, 68 >>
NoFile == [exists |-> FALSE, bytes |-> <<>>]

\* the errors open() and the flush of the buffered writer can raise
OpenErrors == {"FileNotFoundError", "PermissionError"}
WriteErrors == {"OSError"}

VARIABLES
  zlib_impl,    \* the compressor the installed zlib provides
  procs,        \* the invocations of main that run
  argv,         \* sys.argv of each invocation
  pc,           \* where each invocation is in main
  output_file,  \* main's local output_file
  png_data,     \* main's local png_data
  handle,       \* the file object f: "none", "open" or "closed"
  pos,          \* the file position of f
  buffer,       \* the bytes f holds that are not yet handed to the system
  files,        \* the file system: path -> [exists, bytes]
  files0,       \* the file system before any invocation started
  stdout,       \* the lines each invocation printed
  stderr,       \* the uncaught exception each invocation reported
  exc,          \* the exception propagating out of main, or "none"
  exit_status,  \* -1 while running, then the exit status of the process
  opens,        \* number of calls of open() so far
  flushes,      \* number of times buffered bytes were handed to the system
  wrote         \* the bytes each invocation handed to the system

vars == << zlib_impl, procs, argv, pc, output_file, png_data, handle, pos,
           buffer, files, files0, stdout, stderr, exc, exit_status, opens,
           flushes, wrote >>

InitWith(running, args) ==
  /\ zlib_impl \in ZlibImpls
  /\ procs = running
  /\ argv \in args
  /\ pc = [p \in Procs |-> "start"]
  /\ output_file = [p \in Procs |-> ""]
  /\ png_data = [p \in Procs |-> <<>>]
  /\ handle = [p \in Procs |-> "none"]
  /\ pos = [p \in Procs |-> 0]
  /\ buffer = [p \in Procs |-> <<>>]
  /\ files \in [Paths -> {NoFile, [exists |-> TRUE, bytes |-> OldContent]}]
  /\ files0 = files
  /\ stdout = [p \in Procs |-> <<>>]
  /\ stderr = [p \in Procs |-> <<>>]
  /\ exc = [p \in Procs |-> "none"]
  /\ exit_status = [p \in Procs |-> -1]
  /\ opens = [p \in Procs |-> 0]
  /\ flushes = [p \in Procs |-> 0]
  /\ wrote = [p \in Procs |-> <<>>]

\* every invocation runs, in any interleaving.  The invocations are
\* interchangeable, so they are numbered in the order of their arguments.
Init ==
  InitWith(Procs, {a \in [Procs -> Argvs] :
                     \A p, q \in Procs : p < q => Len(a[p]) <= Len(a[q])})

\* one invocation runs alone
InitSolo ==
  InitWith({1}, {a \in [Procs -> Argvs] :
                   \A p \in Procs \ {1} : a[p] = << "generate_test_png.py" >>})

\* sys.argv[1] if len(sys.argv) > 1 else 'example.png'
output_path_other_default(a) == IF Len(a) > 1 THEN a[2] ELSE "out.png"

output_path(a) == IF Len(a) > 1 THEN a[2] ELSE DefaultPath

\* output_file = sys.argv[1] if len(sys.argv) > 1 else 'example.png'
ParseArgs(p) ==
  /\ pc[p] = "start"
  /\ output_file' = [output_file EXCEPT ![p] = output_path(argv[p])]
  /\ pc' = [pc EXCEPT ![p] = "args"]
  /\ UNCHANGED << zlib_impl, procs, argv, png_data, handle, pos, buffer, files,
                  files0, stdout, stderr, exc, exit_status, opens, flushes,
                  wrote >>

\* create_png_data() takes no argument and reads no state: its value for each
\* compressor, computed once
PngTable == [impl \in ZlibImpls |-> create_png_data(impl)]

\* png_data = create_png_data()
Build(p) ==
  /\ pc[p] = "args"
  /\ png_data' = [png_data EXCEPT ![p] = PngTable[zlib_impl]]
  /\ pc' = [pc EXCEPT ![p] = "built"]
  /\ UNCHANGED << zlib_impl, procs, argv, output_file, handle, pos, buffer,
                  files, files0, stdout, stderr, exc, exit_status, opens,
                  flushes, wrote >>

\* a faulty variant: mode 'ab', the file keeps its bytes and f starts at its end
OpenAppend(p) ==
  /\ pc[p] = "built"
  /\ files' = [files EXCEPT ![output_file[p]] =
                 [exists |-> TRUE, bytes |-> files[output_file[p]].bytes]]
  /\ handle' = [handle EXCEPT ![p] = "open"]
  /\ pos' = [pos EXCEPT ![p] = Len(files[output_file[p]].bytes)]
  /\ opens' = [opens EXCEPT ![p] = @ + 1]
  /\ pc' = [pc EXCEPT ![p] = "opened"]
  /\ UNCHANGED << zlib_impl, procs, argv, output_file, png_data, buffer, files0,
                  stdout, stderr, exc, exit_status, flushes, wrote >>

\* open(output_file, 'wb') succeeds: the file is created or truncated
OpenOk(p) ==
  /\ pc[p] = "built"
  /\ files' = [files EXCEPT ![output_file[p]] = [exists |-> TRUE, bytes |-> <<>>]]
  /\ handle' = [handle EXCEPT ![p] = "open"]
  /\ pos' = [pos EXCEPT ![p] = 0]
  /\ opens' = [opens EXCEPT ![p] = @ + 1]
  /\ pc' = [pc EXCEPT ![p] = "opened"]
  /\ UNCHANGED << zlib_impl, procs, argv, output_file, png_data, buffer, files0,
                  stdout, stderr, exc, exit_status, flushes, wrote >>

\* a faulty variant: the failure is swallowed and open() is tried again
OpenFailRetry(p) ==
  /\ pc[p] = "built"
  /\ opens[p] < 3
  /\ opens' = [opens EXCEPT ![p] = @ + 1]
  /\ UNCHANGED << zlib_impl, procs, argv, pc, output_file, png_data, handle, pos,
                  buffer, files, files0, stdout, stderr, exc, exit_status,
                  flushes, wrote >>

\* a faulty variant: the failing open() leaves an empty file behind
OpenFailCreates(p) ==
  /\ pc[p] = "built"
  /\ \E e \in OpenErrors : exc' = [exc EXCEPT ![p] = e]
  /\ files' = [files EXCEPT ![output_file[p]] = [exists |-> TRUE, bytes |-> <<>>]]
  /\ opens' = [opens EXCEPT ![p] = @ + 1]
  /\ pc' = [pc EXCEPT ![p] = "raised"]
  /\ UNCHANGED << zlib_impl, procs, argv, output_file, png_data, handle, pos,
                  buffer, files0, stdout, stderr, exit_status, flushes, wrote >>

\* open(output_file, 'wb') raises: nothing is created, the with body is skipped
OpenFail(p) ==
  /\ pc[p] = "built"
  /\ \E e \in OpenErrors : exc' = [exc EXCEPT ![p] = e]
  /\ opens' = [opens EXCEPT ![p] = @ + 1]
  /\ pc' = [pc EXCEPT ![p] = "raised"]
  /\ UNCHANGED << zlib_impl, procs, argv, output_file, png_data, handle, pos,
                  buffer, files, files0, stdout, stderr, exit_status, flushes,
                  wrote >>

\* f.write(png_data): the buffered writer keeps the bytes
Write(p) ==
  /\ pc[p] = "opened"
  /\ buffer' = [buffer EXCEPT ![p] = @ \o png_data[p]]
  /\ pc' = [pc EXCEPT ![p] = "written"]
  /\ UNCHANGED << zlib_impl, procs, argv, output_file, png_data, handle, pos,
                  files, files0, stdout, stderr, exc, exit_status, opens,
                  flushes, wrote >>

Max(a, b) == IF a > b THEN a ELSE b

\* the bytes of a file after data is written at offset at (holes read as 0)
WriteAt(bytes, at, data) ==
  [i \in 1..Max(Len(bytes), at + Len(data)) |->
     IF i > at /\ i <= at + Len(data) THEN data[i - at]
     ELSE IF i <= Len(bytes) THEN bytes[i] ELSE 0]

\* a faulty variant: the flush lands at the end of the file, not at f's position
CloseOkAtEnd(p) ==
  /\ pc[p] = "written"
  /\ files' = [files EXCEPT ![output_file[p]].bytes = @ \o buffer[p]]
  /\ wrote' = [wrote EXCEPT ![p] = @ \o buffer[p]]
  /\ pos' = [pos EXCEPT ![p] = @ + Len(buffer[p])]
  /\ buffer' = [buffer EXCEPT ![p] = <<>>]
  /\ flushes' = [flushes EXCEPT ![p] = @ + 1]
  /\ handle' = [handle EXCEPT ![p] = "closed"]
  /\ pc' = [pc EXCEPT ![p] = "closed"]
  /\ UNCHANGED << zlib_impl, procs, argv, output_file, png_data, files0, stdout,
                  stderr, exc, exit_status, opens >>

\* leaving the with block: the buffer is flushed to the file, f is closed
CloseOk(p) ==
  /\ pc[p] = "written"
  /\ files' = [files EXCEPT ![output_file[p]].bytes = WriteAt(@, pos[p], buffer[p])]
  /\ wrote' = [wrote EXCEPT ![p] = @ \o buffer[p]]
  /\ pos' = [pos EXCEPT ![p] = @ + Len(buffer[p])]
  /\ buffer' = [buffer EXCEPT ![p] = <<>>]
  /\ flushes' = [flushes EXCEPT ![p] = @ + 1]
  /\ handle' = [handle EXCEPT ![p] = "closed"]
  /\ pc' = [pc EXCEPT ![p] = "closed"]
  /\ UNCHANGED << zlib_impl, procs, argv, output_file, png_data, files0, stdout,
                  stderr, exc, exit_status, opens >>

\* leaving the with block: the flush fails after k bytes reached the file; f is
\* closed all the same and the error leaves main
CloseFail(p) ==
  /\ pc[p] = "written"
  /\ \E k \in 0..Min(MaxPartial, Len(buffer[p]) - 1) :
       /\ files' = [files EXCEPT ![output_file[p]].bytes =
                      WriteAt(@, pos[p], SubSeq(buffer[p], 1, k))]
       /\ wrote' = [wrote EXCEPT ![p] = @ \o SubSeq(buffer[p], 1, k)]
       /\ pos' = [pos EXCEPT ![p] = @ + k]
  /\ \E e \in WriteErrors : exc' = [exc EXCEPT ![p] = e]
  /\ flushes' = [flushes EXCEPT ![p] = @ + 1]
  /\ handle' = [handle EXCEPT ![p] = "closed"]
  /\ pc' = [pc EXCEPT ![p] = "raised"]
  /\ UNCHANGED << zlib_impl, procs, argv, output_file, png_data, buffer, files0,
                  stdout, stderr, exit_status, opens >>

\* the decimal digits of n, as str() prints them
Digits == << "0", "1", "2", "3", "4", "5", "6", "7", "8", "9" >>

RECURSIVE Decimal(_)
Decimal(n) ==
  IF n < 10 THEN << Digits[n + 1] >>
  ELSE Decimal(n \div 10) \o << Digits[(n % 10) + 1] >>

\* f"Generated {output_file} ({len(png_data)} bytes)", as its pieces
FormatLine(path, n) ==
  << "Generated ", path, " (" >> \o Decimal(n) \o << " bytes)" >>

\* a faulty variant: the length of the path is printed, not that of the data
ReportPathLen(p) ==
  /\ pc[p] = "closed"
  /\ stdout' = [stdout EXCEPT ![p] =
                  Append(@, FormatLine(output_file[p], Len(argv[p])))]
  /\ pc' = [pc EXCEPT ![p] = "printed"]
  /\ UNCHANGED << zlib_impl, procs, argv, output_file, png_data, handle, pos,
                  buffer, files, files0, stderr, exc, exit_status, opens,
                  flushes, wrote >>

\* print(f"Generated {output_file} ({len(png_data)} bytes)")
Report(p) ==
  /\ pc[p] = "closed"
  /\ stdout' = [stdout EXCEPT ![p] =
                  Append(@, FormatLine(output_file[p], Len(png_data[p])))]
  /\ pc' = [pc EXCEPT ![p] = "printed"]
  /\ UNCHANGED << zlib_impl, procs, argv, output_file, png_data, handle, pos,
                  buffer, files, files0, stderr, exc, exit_status, opens,
                  flushes, wrote >>

\* main returned: the process exits with status 0
ExitOk(p) ==
  /\ pc[p] = "printed"
  /\ exit_status' = [exit_status EXCEPT ![p] = 0]
  /\ pc' = [pc EXCEPT ![p] = "exited"]
  /\ UNCHANGED << zlib_impl, procs, argv, output_file, png_data, handle, pos,
                  buffer, files, files0, stdout, stderr, exc, opens, flushes,
                  wrote >>

\* nothing catches the exception: the interpreter reports it and exits with 1
ExitError(p) ==
  /\ pc[p] = "raised"
  /\ stderr' = [stderr EXCEPT ![p] = Append(@, exc[p])]
  /\ exit_status' = [exit_status EXCEPT ![p] = 1]
  /\ pc' = [pc EXCEPT ![p] = "exited"]
  /\ UNCHANGED << zlib_impl, procs, argv, output_file, png_data, handle, pos,
                  buffer, files, files0, stdout, exc, opens, flushes, wrote >>

Next ==
  \E p \in procs :
    \/ ParseArgs(p)
    \/ Build(p)
    \/ OpenOk(p)
    \/ OpenFail(p)
    \/ Write(p)
    \/ CloseOk(p)
    \/ CloseFail(p)
    \/ Report(p)
    \/ ExitOk(p)
    \/ ExitError(p)

Spec == Init /\ [][Next]_vars

SpecSolo == InitSolo /\ [][Next]_vars

(***************************************************************************)
(* Properties.                                                             *)
(***************************************************************************)
Png == create_png_data(zlib_impl)

DigitSet == {Digits[i] : i \in 1..10}

RECURSIVE ParseDecimal(_)
ParseDecimal(strs) ==
  IF strs = <<>> THEN 0
  ELSE 10 * ParseDecimal(SubSeq(strs, 1, Len(strs) - 1))
       + ((CHOOSE i \in 1..10 : Digits[i] = strs[Len(strs)]) - 1)

IsPrefix(a, b) == Len(a) <= Len(b) /\ a = SubSeq(b, 1, Len(a))

Finished(p) == pc[p] \in {"closed", "printed", "exited"} /\ exc[p] = "none"

\* C1: in the bytes create_png_data returned there are exactly the three
\* chunks IHDR, IDAT, IEND; each one's stored big-endian length is the byte
\* count of its payload (the 13 header bytes, the compressed pixel bytes,
\* nothing), and each one's stored big-endian CRC is crc32(tag ++ payload)
\* masked to 32 bits (for IEND the CRC of the tag alone).
ChunkLengthsAndCrcs ==
  \A p \in procs : png_data[p] # <<>> =>
    LET png == png_data[p]
        cs == Chunks(png)
    IN  /\ Len(cs) = 3
        /\ \A i \in 1..3 :
             /\ cs[i].ok
             /\ cs[i].length = Len(cs[i].data)
             /\ unpack_L(cs[i].crc) = Mask32(crc32(cs[i].tag \o cs[i].data))
        /\ cs[1].tag = Tag_IHDR /\ cs[1].data = ihdr_data
        /\ unpack_L(SubSeq(png, 9, 12)) = Word(Len(ihdr_data))
        /\ cs[2].tag = Tag_IDAT /\ cs[2].data = compressed_data(zlib_impl)
        /\ unpack_L(SubSeq(png, 34, 37)) = Word(Len(compressed_data(zlib_impl)))
        /\ cs[3].tag = Tag_IEND /\ cs[3].data = <<>> /\ cs[3].length = 0
        /\ unpack_L(cs[3].crc) = Mask32(crc32(Tag_IEND))

ChunksWereBuilt ==
  \E p \in procs :
    /\ pc[p] = "built"
    /\ zlib_impl = "zlib"
    /\ Len(Chunks(png_data[p])) = 3
    /\ Chunks(png_data[p])[2].length = 11

\* C2 as stated: at every point of a run the file at each path holds what it
\* held before the run or the complete create_png_data bytes.
FileIsOldOrComplete ==
  \A X \in Paths :
    \/ files[X] = files0[X]
    \/ files[X] = [exists |-> TRUE, bytes |-> Png]

\* C2 amended: until open() has succeeded, and when open() fails, every file
\* holds what it held before the run; from the successful open() until the
\* flush the destination exists and is empty; after a failed flush it holds a
\* proper prefix of the create_png_data bytes; after a successful flush it
\* holds exactly the create_png_data bytes.  No other file ever changes.
FileIsOldEmptyPrefixOrComplete ==
  \A p \in procs : \A X \in Paths :
    IF X # output_file[p] \/ handle[p] = "none"
    THEN files[X] = files0[X]
    ELSE /\ files[X].exists
         /\ handle[p] = "open" => files[X].bytes = <<>>
         /\ (handle[p] = "closed" /\ exc[p] = "none") => files[X].bytes = Png
         /\ (handle[p] = "closed" /\ exc[p] # "none") =>
              /\ IsPrefix(files[X].bytes, Png)
              /\ Len(files[X].bytes) < Len(Png)

PartialFileAfterFailedFlush ==
  \E p \in procs :
    /\ exc[p] \in WriteErrors
    /\ files0[output_file[p]].exists
    /\ Len(files[output_file[p]].bytes) = 1

\* C3: the bytes create_png_data returned are the 8 signature bytes
\* 89 50 4E 47 0D 0A 1A 0A, then the IHDR chunk, the IDAT chunk and the IEND
\* chunk, in that order, with nothing before, between or after them.
SignatureThenThreeChunks ==
  \A p \in procs : png_data[p] # <<>> =>
    LET png == png_data[p]
        cs == Chunks(png)
    IN  /\ SubSeq(png, 1, 8) = << 137, 80, 78, 71, 13, 10, 26, 10 >>
        /\ Len(cs) = 3
        /\ \A i \in 1..3 : cs[i].ok
        /\ << cs[1].tag, cs[2].tag, cs[3].tag >> = << Tag_IHDR, Tag_IDAT, Tag_IEND >>
        /\ Len(png) = 8 + (12 + cs[1].length) + (12 + cs[2].length)
                        + (12 + cs[3].length)
        /\ png = << 137, 80, 78, 71, 13, 10, 26, 10 >> \o ihdr_chunk
                 \o idat_chunk(zlib_impl) \o iend_chunk

SignedFileOnDisk ==
  \E p \in procs :
    /\ pc[p] = "exited" /\ exit_status[p] = 0
    /\ files[output_file[p]].bytes = png_data[p]
    /\ SubSeq(files[output_file[p]].bytes, 1, 8) = png_signature

\* C4: the confirmation line is printed once, only after the file was written
\* and closed; it names the path that was written, and the number it shows, read
\* as a decimal, is the number of bytes the file at that path holds, which is
\* the length of the create_png_data bytes.  A run that exits with status 0 has
\* printed it.
ConfirmationMatchesFile ==
  \A p \in procs :
    /\ exit_status[p] = 0 => Len(stdout[p]) = 1
    /\ stdout[p] # <<>> =>
         LET line == stdout[p][1]
             n == Len(line)
             digits == SubSeq(line, 4, n - 1)
         IN  /\ Len(stdout[p]) = 1
             /\ n >= 5
             /\ line[1] = "Generated " /\ line[3] = " (" /\ line[n] = " bytes)"
             /\ line[2] = output_file[p]
             /\ \A i \in 1..Len(digits) : digits[i] \in DigitSet
             /\ handle[p] = "closed" /\ flushes[p] = 1 /\ exc[p] = "none"
             /\ wrote[p] = png_data[p]
             /\ files[line[2]].exists
             /\ ParseDecimal(digits) = Len(files[line[2]].bytes)
             /\ ParseDecimal(digits) = Len(Png)

ConfirmationPrinted ==
  \E p \in procs :
    /\ pc[p] = "printed"
    /\ Len(argv[p]) = 2
    /\ files0[output_file[p]].exists
    /\ Len(stdout[p][1]) = 6

\* C5: open() and the flush are each attempted at most once; once either has
\* failed, nothing is printed, nothing more is attempted, and the run ends with
\* exit status 1 reporting the very error that was raised.
FailureIsFinal ==
  \A p \in procs :
    /\ opens[p] <= 1 /\ flushes[p] <= 1
    /\ (opens[p] = 1 /\ handle[p] = "none") => exc[p] \in OpenErrors
    /\ exc[p] # "none" =>
         /\ stdout[p] = <<>>
         /\ pc[p] \in {"raised", "exited"}
         /\ exc[p] \in OpenErrors =>
              opens[p] = 1 /\ flushes[p] = 0 /\ handle[p] = "none"
         /\ exc[p] \in WriteErrors =>
              opens[p] = 1 /\ flushes[p] = 1 /\ handle[p] = "closed"
         /\ pc[p] = "exited" => exit_status[p] = 1 /\ stderr[p] = << exc[p] >>
    /\ exit_status[p] = 1 => exc[p] # "none"

BothFailuresSeen ==
  \E p, q \in procs :
    /\ pc[p] = "exited" /\ exc[p] \in OpenErrors
    /\ pc[q] = "exited" /\ exc[q] \in WriteErrors

\* C6: for every path, once all the invocations that target it have exited
\* with status 0, whatever the interleaving of their steps was, the file at
\* that path holds exactly the create_png_data bytes.
SamePathRunsLeaveThePng ==
  \A X \in Paths :
    LET S == {p \in procs : output_path(argv[p]) = X}
    IN  (S # {} /\ \A p \in S : pc[p] = "exited" /\ exit_status[p] = 0) =>
          files[X] = [exists |-> TRUE, bytes |-> Png]

TwoRunsOnOnePathDone ==
  \E p, q \in procs :
    /\ p # q
    /\ output_file[p] = output_file[q]
    /\ \A r \in procs : pc[r] = "exited" /\ exit_status[r] = 0
    /\ files0[output_file[p]].exists

\* C7: the payload of the first chunk is 13 bytes that read, big-endian, as
\* width 1 and height 1 (u32 each), then bit depth 8, color type 6,
\* compression 0, filter 0, interlace 0.
IhdrDecodes ==
  \A p \in procs : png_data[p] # <<>> =>
    LET c == Chunks(png_data[p])[1]
        d == c.data
    IN  /\ c.ok /\ c.tag = Tag_IHDR
        /\ Len(d) = 13
        /\ unpack_L(SubSeq(d, 1, 4)) = [hi |-> 0, lo |-> 1]
        /\ unpack_L(SubSeq(d, 5, 8)) = [hi |-> 0, lo |-> 1]
        /\ SubSeq(d, 9, 13) = << 8, 6, 0, 0, 0 >>

IhdrInTheBuffer ==
  \E p \in procs :
    /\ pc[p] = "written"
    /\ Chunks(buffer[p])[1].tag = Tag_IHDR
    /\ Chunks(buffer[p])[1].length = 13

\* C8: decompressing the payload of the IDAT chunk gives exactly the five bytes
\* 00 00 00 00 00.
IdatRoundTrip ==
  \A p \in procs : png_data[p] # <<>> =>
    LET c == Chunks(png_data[p])[2]
        r == zlib_decompress(c.data)
    IN  /\ c.ok /\ c.tag = Tag_IDAT
        /\ r.ok
        /\ r.data = << 0, 0, 0, 0, 0 >>

IdatWithAMatchDecoded ==
  \E p \in procs :
    /\ pc[p] = "opened"
    /\ zlib_impl = "greedy"
    /\ Len(Tokenize(pixel_data, 1, zlib_impl)) = 2
    /\ zlib_decompress(Chunks(png_data[p])[2].data).ok

\* C9: without a path argument the destination is 'example.png', with one it
\* is that argument; the bytes an invocation without argument handed to its
\* file are the bytes an invocation with argument handed to its own.
DefaultPathSameBytes ==
  /\ \A p \in procs : pc[p] # "start" =>
       output_file[p] = IF Len(argv[p]) = 1 THEN "example.png" ELSE argv[p][2]
  /\ \A p, q \in procs :
       (Len(argv[p]) = 1 /\ Len(argv[q]) = 2 /\ Finished(p) /\ Finished(q)) =>
         /\ wrote[p] = wrote[q]
         /\ wrote[p] # <<>>
         /\ output_file[p] = "example.png"

DefaultAndExplicitWritten ==
  \E p, q \in procs :
    /\ Len(argv[p]) = 1 /\ Len(argv[q]) = 2
    /\ pc[p] = "exited" /\ pc[q] = "exited"
    /\ output_file[q] = "out.png"
    /\ files["example.png"].exists /\ files["out.png"].exists
    /\ files["example.png"].bytes = files["out.png"].bytes
    /\ Len(files["out.png"].bytes) > 8

\* C10: all calls of create_png_data return the same bytes, whatever ran
\* before them; and whenever every invocation that opened a path has flushed
\* and closed it without error, be it one or several, the file holds the bytes
\* of one call: running again on the same path leaves what one run leaves.
DeterministicAndIdempotent ==
  /\ \A p, q \in procs :
       (png_data[p] # <<>> /\ png_data[q] # <<>>) => png_data[p] = png_data[q]
  /\ \A X \in Paths :
       LET T == {p \in procs : output_file[p] = X /\ handle[p] # "none"}
       IN  (T # {} /\ \A p \in T : handle[p] = "closed" /\ exc[p] = "none") =>
             \A p \in T : files[X] = [exists |-> TRUE, bytes |-> png_data[p]]

RerunOnTheSamePath ==
  \E p, q \in procs :
    /\ p # q
    /\ output_file[p] = output_file[q]
    /\ pc[q] = "exited" /\ exit_status[q] = 0
    /\ pc[p] = "closed"
    /\ files[output_file[p]].bytes = png_data[q]

=============================================================================
